---- MODULE Spec2Model ----
(***************************************************************************)
(* defunctionalized-api: a Proxy based query builder that records a fluent *)
(* call chain as a list of {method, args} steps, and an evaluator that     *)
(* replays such a list against concrete evaluator objects.                 *)
(*                                                                         *)
(* The builder side is modelled with an explicit heap (step objects and    *)
(* step arrays have identities), because queryBuilder hands out the very   *)
(* array its closure holds and copies arrays only shallowly.  The          *)
(* evaluator side is modelled one loop iteration at a time.                *)
(***************************************************************************)
EXTENDS Integers, Sequences, FiniteSets, TLC

\* Number of builder values (Proxies) a run creates, the first one included.
MaxNodes == 3

(***************************************************************************)
(* JavaScript values.  One record shape for every value so that any two    *)
(* values can be compared: k is the kind (typeof, or the class of an       *)
(* evaluator instance), n a number / boolean (0,1) / index into people,    *)
(* s a string, ps the persons of a PeopleQueryEvaluator (indices into      *)
(* people), xs the elements of an array.                                   *)
(***************************************************************************)
Val(k, n, s, ps, xs) == [k |-> k, n |-> n, s |-> s, ps |-> ps, xs |-> xs]
Num(n) == Val("number", n, "", <<>>, <<>>)
Str(s) == Val("string", 0, s, <<>>, <<>>)
Bool(b) == Val("boolean", IF b THEN 1 ELSE 0, "", <<>>, <<>>)
Undefined == Val("undefined", 0, "", <<>>, <<>>)
Null == Val("null", 0, "", <<>>, <<>>)
Arr(xs) == Val("array", 0, "", <<>>, xs)
\* A plain object that came out of JSON.parse: s is its only key ("" for {}).
PlainObject(key, n, ps) == Val("object", n, key, ps, <<>>)

people ==
  << [id |-> "1", name |-> "joe", age |-> 10],
     [id |-> "2", name |-> "joe", age |-> 11],
     [id |-> "3", name |-> "bob", age |-> 12],
     [id |-> "4", name |-> "jeff", age |-> 15] >>

RootQueryEvaluator == Val("RootQueryEvaluator", 0, "", <<>>, <<>>)
PersonQueryEvaluator(person) == Val("PersonQueryEvaluator", person, "", <<>>, <<>>)
PeopleQueryEvaluator(persons) == Val("PeopleQueryEvaluator", 0, "", persons, <<>>)

\* Outcome of a call: a returned value or a thrown error.
NoError == [name |-> "", msg |-> "", arg |-> Undefined]
Error(msg, arg) == [name |-> "Error", msg |-> msg, arg |-> arg]
TypeError(msg) == [name |-> "TypeError", msg |-> msg, arg |-> Undefined]
Return(v) == [ok |-> TRUE, v |-> v, err |-> NoError]
Throw(e) == [ok |-> FALSE, v |-> Undefined, err |-> e]

\* args[i] of a call, undefined when the caller passed fewer arguments.
Param(args, i) == IF i <= Len(args) THEN args[i] ELSE Undefined

\* ToNumber of the primitive kinds: nan marks NaN.
NumericString(s) ==
  CASE s = "1" -> [nan |-> FALSE, n |-> 1]
    [] s = "99" -> [nan |-> FALSE, n |-> 99]
    [] s = "" -> [nan |-> FALSE, n |-> 0]
    [] OTHER -> [nan |-> TRUE, n |-> 0]
ToNumber(v) ==
  CASE v.k = "number" -> [nan |-> FALSE, n |-> v.n]
    [] v.k = "boolean" -> [nan |-> FALSE, n |-> v.n]
    [] v.k = "null" -> [nan |-> FALSE, n |-> 0]
    [] v.k = "string" -> NumericString(v.s)
    [] OTHER -> [nan |-> TRUE, n |-> 0]

\* person.age > age, with the abstract relational comparison of a number
\* against any primitive (NaN compares false).
OlderThan(person, age) ==
  LET a == ToNumber(age) IN ~a.nan /\ people[person].age > a.n

\* this.persons[index]: 0 when the element is undefined, else the person.
\* The property key of a number or of a canonical numeric string is an
\* array index; any other key names no element.
ElementAt(persons, index) ==
  LET key == IF index.k = "number" THEN [nan |-> FALSE, n |-> index.n]
             ELSE IF index.k = "string" /\ index.s # "" THEN NumericString(index.s)
             ELSE [nan |-> TRUE, n |-> 0]
  IN IF ~key.nan /\ key.n >= 0 /\ key.n < Len(persons) THEN persons[key.n + 1] ELSE 0

AllPeople == [i \in 1..Len(people) |-> i]

\* The methods each evaluator class declares.
ClassMethods(k) ==
  CASE k = "RootQueryEvaluator" -> {"getPerson", "getPeopleNamed"}
    [] k = "PersonQueryEvaluator" -> {"getName", "getAge", "isOlderThan"}
    [] k = "PeopleQueryEvaluator" ->
         {"mapGetName", "mapGetAge", "mapIsOlderThan", "filterIsOlderThan", "atIndex"}
    [] OTHER -> {}

\* Of the members every value inherits from its prototype, the model keeps
\* valueOf, which returns the receiver.
Inherited == {"valueOf"}

\* typeof target[method] === "function"
IsFunction(target, method) ==
  /\ target.k \notin {"undefined", "null"}
  /\ method \in ClassMethods(target.k) \cup Inherited

\* The body of each method, run with this = target.
Body(target, method, args) ==
  LET a == Param(args, 1) IN
  CASE method = "getPerson" ->
         LET found == SelectSeq(AllPeople, LAMBDA p : a.k = "string" /\ people[p].id = a.s)
         IN IF found = <<>> THEN Throw(Error("Could not find person: ", a))
            ELSE Return(PersonQueryEvaluator(found[1]))
    [] method = "getPeopleNamed" ->
         Return(PeopleQueryEvaluator(
           SelectSeq(AllPeople, LAMBDA p : a.k = "string" /\ people[p].name = a.s)))
    [] method = "getName" -> Return(Str(people[target.n].name))
    [] method = "getAge" -> Return(Num(people[target.n].age))
    [] method = "isOlderThan" -> Return(Bool(OlderThan(target.n, a)))
    [] method = "mapGetName" ->
         Return(Arr([i \in 1..Len(target.ps) |-> Str(people[target.ps[i]].name)]))
    [] method = "mapGetAge" ->
         Return(Arr([i \in 1..Len(target.ps) |-> Num(people[target.ps[i]].age)]))
    [] method = "mapIsOlderThan" ->
         Return(Arr([i \in 1..Len(target.ps) |-> Bool(OlderThan(target.ps[i], a))]))
    [] method = "filterIsOlderThan" ->
         Return(PeopleQueryEvaluator(SelectSeq(target.ps, LAMBDA p : OlderThan(p, a))))
    [] method = "atIndex" ->
         LET person == ElementAt(target.ps, a)
         IN IF person = 0 THEN Throw(Error("No person at index: ", a))
            ELSE Return(PersonQueryEvaluator(person))
    [] method = "valueOf" -> Return(target)

\* target[method](...args): property lookup, then the call.
Invoke(target, method, args) ==
  IF target.k \in {"undefined", "null"}
  THEN Throw(TypeError("Cannot read properties of undefined"))
  ELSE IF ~IsFunction(target, method)
  THEN Throw(TypeError("is not a function"))
  ELSE Body(target, method, args)

(***************************************************************************)
(* JSON.stringify / JSON.parse.  JSON text is modelled as its token tree:  *)
(* j is the token ("number", "string", "true", "false", "null", "array",   *)
(* "object").  undefined has no JSON form: inside an array it is written   *)
(* as null.  An evaluator instance is written as a plain object holding    *)
(* its own enumerable field, and comes back without its class.             *)
(***************************************************************************)
Json(j, n, s, ps, items) == [j |-> j, n |-> n, s |-> s, ps |-> ps, items |-> items]

\* Mutant: numbers are written as null.
StringifyElementNumbersLost(v) ==
  CASE v.k = "string" -> Json("string", 0, v.s, <<>>, <<>>)
    [] v.k = "boolean" -> Json(IF v.n = 1 THEN "true" ELSE "false", 0, "", <<>>, <<>>)
    [] v.k \in {"null", "undefined", "number"} -> Json("null", 0, "", <<>>, <<>>)
    [] v.k = "RootQueryEvaluator" -> Json("object", 0, "", <<>>, <<>>)
    [] v.k = "PersonQueryEvaluator" -> Json("object", v.n, "person", <<>>, <<>>)
    [] v.k = "PeopleQueryEvaluator" -> Json("object", 0, "persons", v.ps, <<>>)
    [] v.k = "object" -> Json("object", v.n, v.s, v.ps, <<>>)
    [] v.k = "array" -> Json("array", 0, "", <<>>, <<>>)

StringifyElement(v) ==
  CASE v.k = "number" -> Json("number", v.n, "", <<>>, <<>>)
    [] v.k = "string" -> Json("string", 0, v.s, <<>>, <<>>)
    [] v.k = "boolean" -> Json(IF v.n = 1 THEN "true" ELSE "false", 0, "", <<>>, <<>>)
    [] v.k \in {"null", "undefined"} -> Json("null", 0, "", <<>>, <<>>)
    [] v.k = "RootQueryEvaluator" -> Json("object", 0, "", <<>>, <<>>)
    [] v.k = "PersonQueryEvaluator" -> Json("object", v.n, "person", <<>>, <<>>)
    [] v.k = "PeopleQueryEvaluator" -> Json("object", 0, "persons", v.ps, <<>>)
    [] v.k = "object" -> Json("object", v.n, v.s, v.ps, <<>>)
    [] v.k = "array" -> Json("array", 0, "", <<>>, <<>>)

StringifyValue(v) ==
  IF v.k = "array"
  THEN Json("array", 0, "", <<>>, [i \in 1..Len(v.xs) |-> StringifyElement(v.xs[i])])
  ELSE StringifyElement(v)

ParseElement(t) ==
  CASE t.j = "number" -> Num(t.n)
    [] t.j = "string" -> Str(t.s)
    [] t.j = "true" -> Bool(TRUE)
    [] t.j = "false" -> Bool(FALSE)
    [] t.j = "null" -> Null
    [] t.j = "object" -> PlainObject(t.s, t.n, t.ps)
    [] t.j = "array" -> Arr(<<>>)

ParseValue(t) ==
  IF t.j = "array"
  THEN Arr([i \in 1..Len(t.items) |-> ParseElement(t.items[i])])
  ELSE ParseElement(t)

\* JSON.stringify(steps) and JSON.parse of that text.
StringifySteps(steps) ==
  [i \in 1..Len(steps) |->
     [method |-> StringifyElement(Str(steps[i].method)),
      args |-> [a \in 1..Len(steps[i].args) |-> StringifyValue(steps[i].args[a])]]]

ParseSteps(text) ==
  [i \in 1..Len(text) |->
     [method |-> ParseElement(text[i].method).s,
      args |-> [a \in 1..Len(text[i].args) |-> ParseValue(text[i].args[a])]]]

\* What the transport resolves or rejects with: the result goes through
\* JSON.parse(JSON.stringify(result)); a thrown error rejects the promise.
\* JSON.stringify(undefined) is undefined, which JSON.parse rejects.
TransportReply(outcome) ==
  IF ~outcome.ok THEN outcome
  ELSE IF outcome.v.k = "undefined" THEN Throw([name |-> "SyntaxError", msg |-> "", arg |-> Undefined])
  ELSE Return(ParseValue(StringifyValue(outcome.v)))

(***************************************************************************)
(* The API types and the QueryBuilder mapped type.                         *)
(***************************************************************************)
RootQuery ==
  [getPerson |-> [params |-> <<"string">>, returns |-> "PersonQuery"],
   getPeopleNamed |-> [params |-> <<"string">>, returns |-> "PeopleQuery"]]

PersonQuery ==
  [getName |-> [params |-> <<>>, returns |-> "string"],
   getAge |-> [params |-> <<>>, returns |-> "number"],
   isOlderThan |-> [params |-> <<"number">>, returns |-> "boolean"]]

PeopleQuery ==
  [mapGetName |-> [params |-> <<>>, returns |-> "string[]"],
   mapGetAge |-> [params |-> <<>>, returns |-> "number[]"],
   mapIsOlderThan |-> [params |-> <<"number">>, returns |-> "boolean[]"],
   filterIsOlderThan |-> [params |-> <<"number">>, returns |-> "PeopleQuery"],
   atIndex |-> [params |-> <<"number">>, returns |-> "PersonQuery"]]

\* The types that extend AnyFunctionMap.
AnyFunctionMap == {"RootQuery", "PersonQuery", "PeopleQuery"}

TypeNamed(T) ==
  CASE T = "RootQuery" -> RootQuery
    [] T = "PersonQuery" -> PersonQuery
    [] T = "PeopleQuery" -> PeopleQuery
    [] OTHER -> << >>

\* The static type of a builder value: QueryBuilder<of>, QueryPlan<of>, or
\* any (a value the type checker no longer constrains).
BuilderOf(T) == [kind |-> "QueryBuilder", of |-> T]
PlanOf(T) == [kind |-> "QueryPlan", of |-> T]
AnyType == [kind |-> "any", of |-> ""]

\* Mutant: every result is taken for chainable.
QueryBuilderAlwaysChainable(T, K) == BuilderOf(TypeNamed(T)[K].returns)

\* Mutant: the result keeps the scope of the builder it was called on.
QueryBuilderSameScope(T, K) == BuilderOf(T)

\* ReturnType<T[K]> extends AnyFunctionMap ? QueryBuilder<..> : QueryPlan<..>
QueryBuilder(T, K) ==
  LET R == TypeNamed(T)[K].returns
  IN IF R \in AnyFunctionMap THEN BuilderOf(R) ELSE PlanOf(R)

\* K in keyof T, and ...args: Parameters<T[K]>
Accepts(T, K, args) ==
  /\ K \in DOMAIN TypeNamed(T)
  /\ Len(args) = Len(TypeNamed(T)[K].params)
  /\ \A i \in 1..Len(args) : args[i].k = TypeNamed(T)[K].params[i]

\* Whether the type checker accepts builder.method(...args) on a value of
\* static type `type`.
TypeChecks(type, method, args) ==
  type.kind = "QueryBuilder" /\ Accepts(type.of, method, args)

(***************************************************************************)
(* State.                                                                  *)
(***************************************************************************)
VARIABLES
  stepObjs,   \* heap of QueryStep objects: stepObjs[id] = [method, args]
  arrays,     \* heap of QueryStep[] arrays: arrays[id] = sequence of step ids
  nodes,      \* the Proxies made so far: nodes[b].steps is the array the
              \* closure of builder b holds
  types,      \* types[b]: the static type the declarations give builder b
  hist,       \* history: for builder b its parent (0 for the first), the
              \* chain of calls that led to it, and whether the type checker
              \* accepted every call of the chain
  ref,        \* the array last obtained by reading $steps (0: none)
  pc,         \* evaluator: "idle", "loop" or "done"
  via,        \* TRUE when the evaluation was started by evaluateQueryPlan
  plan,       \* the builder whose steps are being evaluated
  evaluator,  \* the root object handed to evaluateQuerySteps
  sent,       \* the steps handed to the transport / to evaluateQuerySteps
  esteps,     \* the steps the loop iterates over
  idx,        \* position of the for..of iterator, 1-based
  result,     \* the loop's result variable
  log,        \* history: the calls the loop made, [index, target]
  out,        \* how evaluateQuerySteps ended
  reply       \* what the caller of the evaluation receives

builderVars == <<stepObjs, arrays, nodes, types, hist, ref>>
evalVars == <<pc, via, plan, evaluator, sent, esteps, idx, result, log, out, reply>>
vars == <<stepObjs, arrays, nodes, types, hist, ref,
          pc, via, plan, evaluator, sent, esteps, idx, result, log, out, reply>>

QueryStep(method, args) == [method |-> method, args |-> args]

\* The calls a client makes on a builder: every declared operation, with
\* arguments that succeed and arguments that make the operation fail, an
\* argument JSON cannot carry, and an inherited member.  The Proxy takes
\* each of them on any builder, whatever the builder's type declares.
Calls ==
  { QueryStep("getPerson", <<Str("1")>>), QueryStep("getPerson", <<Str("99")>>),
    QueryStep("getPeopleNamed", <<Str("joe")>>),
    QueryStep("getName", <<>>), QueryStep("getAge", <<>>),
    QueryStep("isOlderThan", <<Num(10)>>),
    QueryStep("mapGetName", <<>>), QueryStep("mapGetAge", <<>>),
    QueryStep("mapIsOlderThan", <<Num(10)>>),
    QueryStep("filterIsOlderThan", <<Num(10)>>),
    QueryStep("filterIsOlderThan", <<Undefined>>),
    QueryStep("atIndex", <<Num(0)>>), QueryStep("atIndex", <<Num(5)>>),
    QueryStep("valueOf", <<>>) }

\* queryBuilder<T>(steps): the first builder of a run.
InitialBuilders ==
  { [type |-> BuilderOf("RootQuery"), steps |-> <<>>],
    [type |-> BuilderOf("PeopleQuery"),
     steps |-> <<QueryStep("getPeopleNamed", <<Str("joe")>>)>>] }

\* The roots evaluateQuerySteps is called with directly.
Roots == { RootQueryEvaluator, PeopleQueryEvaluator(<<1, 2>>) }

\* b.$steps in a given heap: the array the closure holds, each element
\* read through its reference.
StepsIn(ns, arrs, objs, b) ==
  [i \in 1..Len(arrs[ns[b].steps]) |-> objs[arrs[ns[b].steps][i]]]

\* b.$steps now.
Steps(b) == StepsIn(nodes, arrays, stepObjs, b)

Builders == 1..Len(nodes)

\* Mutant: [step, ...steps]
SpreadPrepend(steps, step) == <<step>> \o steps

\* [...steps, step]
SpreadAppend(steps, step) == steps \o <<step>>

\* Mutant: steps.push(step) on the closure's own array before the spread.
HeapAfterCallPush(arrs, a, step) ==
  Append([arrs EXCEPT ![a] = @ \o <<step>>], arrs[a] \o <<step>>)

\* The arrays after a call on the builder holding array a: the spread
\* allocates a new array and leaves a as it was.
HeapAfterCall(arrs, a, step) == Append(arrs, SpreadAppend(arrs[a], step))

Idle ==
  /\ pc = "idle" /\ via = FALSE /\ plan = 0 /\ evaluator = Undefined
  /\ sent = <<>> /\ esteps = <<>> /\ idx = 0 /\ result = Undefined
  /\ log = <<>> /\ out = Return(Undefined) /\ reply = Return(Undefined)

Init ==
  /\ \E q \in InitialBuilders :
       /\ stepObjs = q.steps
       /\ arrays = << [i \in 1..Len(q.steps) |-> i] >>
       /\ nodes = << [steps |-> 1] >>
       /\ types = << q.type >>
       /\ hist = << [parent |-> 0, chain |-> q.steps, checked |-> TRUE] >>
  /\ ref = 0
  /\ Idle

(***************************************************************************)
(* The builder.                                                            *)
(***************************************************************************)
\* b[prop](...args) with prop other than "$steps": the get trap returns a
\* closure, and calling it makes a step and a new Proxy over the spread.
Call(b, c) ==
  /\ pc = "idle"
  /\ Len(nodes) < MaxNodes
  /\ stepObjs' = Append(stepObjs, QueryStep(c.method, c.args))
  /\ arrays' = HeapAfterCall(arrays, nodes[b].steps, Len(stepObjs) + 1)
  /\ nodes' = Append(nodes, [steps |-> Len(arrays) + 1])
  /\ types' = Append(types,
                IF TypeChecks(types[b], c.method, c.args)
                THEN QueryBuilder(types[b].of, c.method) ELSE AnyType)
  /\ hist' = Append(hist,
               [parent |-> b, chain |-> hist[b].chain \o <<c>>,
                checked |-> hist[b].checked /\ TypeChecks(types[b], c.method, c.args)])
  /\ UNCHANGED <<ref>>
  /\ UNCHANGED evalVars

\* b.$steps: the get trap returns the closure's array itself.
ReadSteps(b) ==
  /\ pc = "idle"
  /\ ref # nodes[b].steps
  /\ ref' = nodes[b].steps
  /\ UNCHANGED <<stepObjs, arrays, nodes, types, hist>>
  /\ UNCHANGED evalVars

(***************************************************************************)
(* The evaluator.                                                          *)
(***************************************************************************)
\* Mutant: let result (left undefined)
InitialResultUndefined(root) == Undefined

\* let result = evaluator
InitialResult(root) == root

\* Mutant: the loop stops one step early.
HasNextOffByOne(steps, i) == i < Len(steps)

\* for (const step of steps): whether the iterator yields another step.
HasNext(steps, i) == i <= Len(steps)

\* Mutant: result[step.method]?.(...step.args) ?? result, which skips a
\* step whose method the target lacks.
IterateSkipMissing(current, step) ==
  IF IsFunction(current, step.method)
  THEN Invoke(current, step.method, step.args) ELSE Return(current)

\* result[step.method](...step.args)
Iterate(current, step) == Invoke(current, step.method, step.args)

\* Mutant: the call wrapped in a try/catch that goes on with the next step.
PropagatesNever(outcome) == FALSE

\* The loop has no try/catch: whatever a call throws leaves the function.
Propagates(outcome) == ~outcome.ok

\* evaluateQuerySteps as a function of its arguments.
RECURSIVE Loop(_, _, _)
Loop(current, steps, i) ==
  IF ~HasNext(steps, i) THEN Return(current)
  ELSE LET r == Iterate(current, steps[i])
       IN IF Propagates(r) THEN r ELSE Loop(r.v, steps, i + 1)

evaluateQuerySteps(root, steps) == Loop(InitialResult(root), steps, 1)

\* evaluateQueryPlan passes plan.$steps to the transport.
PlanSteps(b) == Steps(b)

\* evaluateQueryPlan(evaluate, plan) with the transport of the tests:
\* stringify the steps, parse them in the remote process and start
\* evaluateQuerySteps on a new RootQueryEvaluator.
EvaluateQueryPlan(b) ==
  /\ pc = "idle"
  /\ pc' = "loop" /\ via' = TRUE /\ plan' = b
  /\ sent' = PlanSteps(b)
  /\ esteps' = ParseSteps(StringifySteps(PlanSteps(b)))
  /\ evaluator' = RootQueryEvaluator
  /\ result' = InitialResult(RootQueryEvaluator)
  /\ idx' = 1 /\ log' = <<>>
  /\ UNCHANGED <<out, reply>>
  /\ UNCHANGED builderVars

\* evaluateQuerySteps(root, b.$steps) called directly.
EvaluateQuerySteps(root, b) ==
  /\ pc = "idle"
  /\ pc' = "loop" /\ via' = FALSE /\ plan' = b
  /\ sent' = Steps(b) /\ esteps' = Steps(b)
  /\ evaluator' = root
  /\ result' = InitialResult(root)
  /\ idx' = 1 /\ log' = <<>>
  /\ UNCHANGED <<out, reply>>
  /\ UNCHANGED builderVars

\* One iteration of the loop.
Iteration ==
  /\ pc = "loop"
  /\ HasNext(esteps, idx)
  /\ LET r == Iterate(result, esteps[idx]) IN
       /\ log' = Append(log, [index |-> idx, target |-> result])
       /\ IF Propagates(r)
          THEN /\ pc' = "done"
               /\ out' = r
               /\ reply' = IF via THEN TransportReply(r) ELSE r
               /\ UNCHANGED <<result, idx>>
          ELSE /\ result' = r.v
               /\ idx' = idx + 1
               /\ UNCHANGED <<pc, out, reply>>
  /\ UNCHANGED <<via, plan, evaluator, sent, esteps>>
  /\ UNCHANGED builderVars

\* return result
ReturnResult ==
  /\ pc = "loop"
  /\ ~HasNext(esteps, idx)
  /\ pc' = "done"
  /\ out' = Return(result)
  /\ reply' = IF via THEN TransportReply(Return(result)) ELSE Return(result)
  /\ UNCHANGED <<via, plan, evaluator, sent, esteps, idx, result, log>>
  /\ UNCHANGED builderVars

\* The caller has taken the outcome; the evaluator is free again.
Settle ==
  /\ pc = "done"
  /\ pc' = "idle" /\ via' = FALSE /\ plan' = 0 /\ evaluator' = Undefined
  /\ sent' = <<>> /\ esteps' = <<>> /\ idx' = 0 /\ result' = Undefined
  /\ log' = <<>> /\ out' = Return(Undefined) /\ reply' = Return(Undefined)
  /\ UNCHANGED builderVars

Next ==
  \/ \E b \in Builders, c \in Calls : Call(b, c)
  \/ \E b \in Builders : EvaluateQueryPlan(b)
  \/ \E b \in Builders, root \in Roots : EvaluateQuerySteps(root, b)
  \/ Iteration
  \/ ReturnResult
  \/ Settle

Spec == Init /\ [][Next]_vars

(***************************************************************************)
(* A client that writes through the array $steps hands out.                *)
(***************************************************************************)
\* The method name a client overwrites a step's method with, and the step
\* it pushes.
Renames == {"getAge"}
Pushed == {QueryStep("getAge", <<>>)}

\* ref.push(step) on the array obtained from $steps.
Push(c) ==
  /\ pc = "idle"
  /\ ref # 0
  \* one push per run: so far every step object came from the initial
  \* sequence or from a call
  /\ Len(stepObjs) = Len(hist[1].chain) + Len(nodes) - 1
  /\ stepObjs' = Append(stepObjs, QueryStep(c.method, c.args))
  /\ arrays' = [arrays EXCEPT ![ref] = Append(@, Len(stepObjs) + 1)]
  /\ UNCHANGED <<nodes, types, hist, ref>>
  /\ UNCHANGED evalVars

\* ref[i].method = m on a step of the array obtained from $steps.
SetMethod(i, m) ==
  /\ pc = "idle"
  /\ ref # 0
  /\ i \in 1..Len(arrays[ref])
  /\ stepObjs[arrays[ref][i]].method # m
  /\ stepObjs' = [stepObjs EXCEPT ![arrays[ref][i]].method = m]
  /\ UNCHANGED <<arrays, nodes, types, hist, ref>>
  /\ UNCHANGED evalVars

NextAlias ==
  \/ \E b \in Builders, c \in Calls : Call(b, c)
  \/ \E b \in Builders : ReadSteps(b)
  \/ \E c \in Pushed : Push(c)
  \/ \E i \in 1..MaxNodes, m \in Renames : SetMethod(i, m)

SpecAlias == Init /\ [][NextAlias]_vars

(***************************************************************************)
(* Properties.                                                             *)
(***************************************************************************)
\* on(...(o2(o1(root)))): the calls of a chain made directly on the
\* concrete objects, innermost first; a call that throws is not followed
\* by the outer calls.
RECURSIVE Direct(_, _)
Direct(root, chain) ==
  IF chain = <<>> THEN Return(root)
  ELSE LET inner == Direct(root, SubSeq(chain, 1, Len(chain) - 1))
           last == chain[Len(chain)]
       IN IF ~inner.ok THEN inner ELSE Invoke(inner.v, last.method, last.args)

\* The number of calls that led from the first builder to b.
RECURSIVE Depth(_)
Depth(b) == IF hist[b].parent = 0 THEN 0 ELSE 1 + Depth(hist[b].parent)

\* The call that made builder b.
OwnCall(b) == hist[b].chain[Len(hist[b].chain)]

\* Whether every argument of every step is a value JSON carries.
RECURSIVE PlainValue(_)
PlainValue(v) ==
  \/ v.k \in {"number", "string", "boolean", "null"}
  \/ v.k = "array" /\ \A i \in 1..Len(v.xs) : PlainValue(v.xs[i])
Plain(steps) ==
  \A i \in 1..Len(steps) : \A a \in 1..Len(steps[i].args) : PlainValue(steps[i].args[a])

\* C1: evaluateQuerySteps(R, steps recorded for a chain) ends as the direct
\* nested calls o_n(...(o_1(R))) end (same value or same failure), and the
\* loop invokes step j as its j-th call, on the result of the calls before
\* it; when it returns, every step was invoked once.
C1_EvaluateIsDirectCalls ==
  (pc = "done" /\ ~via) =>
    /\ out = Direct(evaluator, hist[plan].chain)
    /\ \A j \in 1..Len(log) :
         /\ log[j].index = j
         /\ Return(log[j].target) = Direct(evaluator, SubSeq(hist[plan].chain, 1, j - 1))
    /\ out.ok => Len(log) = Len(hist[plan].chain)

C1_Witness ==
  /\ pc = "done" /\ ~via /\ evaluator = RootQueryEvaluator
  /\ Len(hist[plan].chain) = 2 /\ Len(log) = 2
  /\ out = Return(Num(10))

\* C2: after n calls on a builder made from the initial sequence s, $steps
\* is s followed by n entries, entry i being {method, args} of the i-th
\* call, in call order (n entries when s is empty).
C2_StepsAreTheCalls ==
  \A b \in Builders :
    /\ Len(Steps(b)) = Len(hist[1].chain) + Depth(b)
    /\ Steps(b) = hist[b].chain
    /\ SubSeq(Steps(b), 1, Len(hist[1].chain)) = hist[1].chain

C2_Witness ==
  \E b \in Builders :
    /\ hist[1].chain = <<>> /\ Depth(b) = 2
    /\ Steps(b) = <<QueryStep("getPerson", <<Str("1")>>), QueryStep("getName", <<>>)>>

\* C3: a call on a builder changes the $steps of no existing builder; the
\* new builder's $steps is that of the builder it was called on followed
\* by the one new step, and evaluates on the root to what the direct calls
\* of that branch alone give.
C3_Persistent ==
  [][ /\ \A b \in Builders : StepsIn(nodes', arrays', stepObjs', b) = Steps(b)
      /\ Len(nodes') > Len(nodes) =>
           LET new == Len(nodes')
               branch == StepsIn(nodes', arrays', stepObjs', new)
           IN /\ new = Len(nodes) + 1
              /\ branch = Steps(hist'[new].parent)
                            \o <<hist'[new].chain[Len(hist'[new].chain)]>>
              /\ evaluateQuerySteps(RootQueryEvaluator, branch)
                   = Direct(RootQueryEvaluator, hist'[new].chain)
    ]_vars

C3_Witness ==
  \E b, c \in Builders :
    /\ b # c /\ hist[b].parent = 1 /\ hist[c].parent = 1
    /\ OwnCall(b).method # OwnCall(c).method
    /\ Steps(1) = hist[1].chain
    /\ Steps(b) = Steps(1) \o <<OwnCall(b)>>
    /\ Steps(c) = Steps(1) \o <<OwnCall(c)>>

\* C4: an iteration of the loop ends the evaluation with a TypeError
\* ("is not a function"), handed to the caller, exactly when the current
\* target has no method named by the step.
C4_MethodNotFound ==
  [][ (pc = "loop" /\ idx <= Len(esteps)) =>
        ( ~IsFunction(result, esteps[idx].method)
          <=> /\ pc' = "done"
              /\ ~out'.ok /\ out'.err.name = "TypeError"
              /\ ~reply'.ok /\ reply'.err = out'.err )
    ]_vars

C4_Witness ==
  /\ pc = "done" /\ ~out.ok /\ out.err.name = "TypeError"
  /\ Len(log) = 2 /\ log[2].target.k = "PersonQueryEvaluator"

\* C5: once a step's operation fails the evaluation ends with that very
\* failure and no value; the steps before it were each invoked once, in
\* order, and succeeded; no step after it is invoked.
C5_AllOrNothing ==
  /\ pc = "loop" =>
       /\ Len(log) = idx - 1
       /\ \A j \in 1..Len(log) :
            /\ log[j].index = j
            /\ Invoke(log[j].target, esteps[j].method, esteps[j].args).ok
  /\ pc = "done" =>
       /\ \A j \in 1..Len(log) :
            /\ log[j].index = j
            /\ j < Len(log) => Invoke(log[j].target, esteps[j].method, esteps[j].args).ok
       /\ ~out.ok =>
            /\ Len(log) >= 1 /\ Len(log) <= Len(esteps)
            /\ out = Invoke(log[Len(log)].target,
                            esteps[Len(log)].method, esteps[Len(log)].args)
            /\ ~reply.ok /\ reply.err = out.err /\ reply.v = Undefined
       /\ out.ok =>
            /\ Len(log) = Len(esteps)
            /\ Len(log) >= 1 =>
                 Invoke(log[Len(log)].target,
                        esteps[Len(log)].method, esteps[Len(log)].args).ok

C5_Witness ==
  /\ pc = "done" /\ ~out.ok
  /\ out.err = Error("Could not find person: ", Str("99"))
  /\ Len(log) = 1 /\ Len(esteps) = 2

\* C6: evaluating no steps returns the root itself, invokes nothing and
\* raises nothing.
C6_EmptyIsIdentity ==
  (pc = "done" /\ sent = <<>>) =>
    /\ out = Return(evaluator)
    /\ log = <<>>
    /\ ~via => reply = Return(evaluator)

C6_Witness ==
  /\ pc = "done" /\ sent = <<>> /\ ~via
  /\ evaluator = PeopleQueryEvaluator(<<1, 2>>)
  /\ reply = Return(PeopleQueryEvaluator(<<1, 2>>))

\* C7 as stated: a call the declarations type returns a builder of the
\* result interface when the result is chainable and a Plan when it is
\* terminal, both carrying the extended steps, and a Plan is the end of
\* the chain: no further step is ever recorded on it.
C7_PlanEndsChain ==
  \A b \in Builders :
    hist[b].parent # 0 =>
      LET p == hist[b].parent
          c == OwnCall(b)
      IN /\ TypeChecks(types[p], c.method, c.args) =>
              LET R == TypeNamed(types[p].of)[c.method].returns
              IN /\ types[b] = IF R \in AnyFunctionMap THEN BuilderOf(R) ELSE PlanOf(R)
                 /\ Steps(b) = Steps(p) \o <<c>>
         /\ types[p].kind # "QueryPlan"

\* C7 amended: the static type of the returned value is a builder of the
\* result interface when the result is chainable and a Plan when it is
\* terminal, both carrying the extended steps; a Plan's type offers no
\* operation, so a step recorded on a Plan comes from a call the type
\* checker rejects (at run time the Plan is a Proxy like any builder).
C7_PlanEndsTypedChain ==
  \A b \in Builders :
    hist[b].parent # 0 =>
      LET p == hist[b].parent
          c == OwnCall(b)
      IN /\ TypeChecks(types[p], c.method, c.args) =>
              LET R == TypeNamed(types[p].of)[c.method].returns
              IN /\ types[b] = IF R \in AnyFunctionMap THEN BuilderOf(R) ELSE PlanOf(R)
                 /\ Steps(b) = Steps(p) \o <<c>>
         /\ types[p].kind = "QueryPlan" =>
              /\ ~hist[b].checked
              /\ types[b] = AnyType
              /\ \A T \in AnyFunctionMap : types[p] # BuilderOf(T)

C7_Witness ==
  \E b, c \in Builders :
    /\ hist[c].parent = b /\ hist[b].parent = 1
    /\ hist[c].checked
    /\ types[b] = BuilderOf("PersonQuery")
    /\ types[c] = PlanOf("number")
    /\ Steps(c) = <<QueryStep("getPerson", <<Str("1")>>), QueryStep("getAge", <<>>)>>

\* Whether steps i.. are declared operations, each of the interface the
\* step before it results in, T being the interface current at i.
RECURSIVE WellFormed(_, _, _)
WellFormed(T, steps, i) ==
  \/ i > Len(steps)
  \/ /\ T \in AnyFunctionMap
     /\ steps[i].method \in DOMAIN TypeNamed(T)
     /\ WellFormed(TypeNamed(T)[steps[i].method].returns, steps, i + 1)

\* C8 as stated: every step sequence a builder holds is well-formed against
\* the interface description, starting from the root interface.
C8_AlwaysWellFormed ==
  \A b \in Builders : WellFormed("RootQuery", Steps(b), 1)

\* C8 amended: the step sequence of a builder reached only through calls
\* the QueryBuilder type admits, from an initial sequence that is itself
\* well-formed, is well-formed (the Proxy itself records any name).
C8_TypedWellFormed ==
  \A b \in Builders :
    (hist[b].checked /\ WellFormed("RootQuery", hist[1].chain, 1)) =>
      /\ WellFormed("RootQuery", Steps(b), 1)
      /\ \A i \in 1..Len(Steps(b)) : Steps(b)[i].method # "valueOf"

C8_Witness ==
  \E b \in Builders :
    /\ hist[b].checked /\ Depth(b) = 2 /\ hist[1].chain = <<>>
    /\ WellFormed("RootQuery", Steps(b), 1)
    /\ Steps(b)[2].method = "atIndex"

\* C9: evaluateQueryPlan hands exactly plan.$steps to the transport and
\* its caller receives what the transport ends with; and when every
\* argument is a value JSON carries, the steps that went through
\* JSON.stringify and JSON.parse evaluate to what the steps as built
\* evaluate to.
C9_RoundTrip ==
  (pc = "done" /\ via) =>
    /\ sent = Steps(plan)
    /\ reply = TransportReply(out)
    /\ Plain(sent) => out = evaluateQuerySteps(RootQueryEvaluator, sent)

C9_Witness ==
  /\ pc = "done" /\ via /\ Plain(sent)
  /\ sent = <<QueryStep("getPeopleNamed", <<Str("joe")>>),
              QueryStep("filterIsOlderThan", <<Num(10)>>)>>
  /\ out = Return(PeopleQueryEvaluator(<<2>>))
  /\ reply = Return(PlainObject("persons", 0, <<2>>))

\* C10: reading $steps makes no builder and changes no $steps, and a write
\* through the array obtained from one builder's $steps changes the $steps
\* of no other builder.
C10_NoSharedStructure ==
  [][ /\ ref' # ref =>
           /\ nodes' = nodes
           /\ \A b \in Builders : StepsIn(nodes', arrays', stepObjs', b) = Steps(b)
      /\ (ref' = ref /\ nodes' = nodes) =>
           \A b \in Builders :
             nodes[b].steps # ref => StepsIn(nodes', arrays', stepObjs', b) = Steps(b)
    ]_vars
====
